---- MODULE Spec2Model ----
(***************************************************************************)
(* A model of src/urna_log_crawler.py: the chunked downloader              *)
(* (download_chunk, download_file_with_multiple_connections), the archive  *)
(* unpacker and record merge (process_downloaded_zip), and the persisted   *)
(* store (LoadDataDict, DumpDataDict) driven by main.                      *)
(*                                                                         *)
(* Four specifications share the module:                                   *)
(*   SpecDL     one destination file downloaded by N chunk threads         *)
(*   SpecZip    one outer archive processed member by member               *)
(*   SpecMain   main's loop over the worklist, with save, crash, restart   *)
(*   SpecUpsert the merge of one section applied in two ways to one store  *)
(***************************************************************************)
EXTENDS Integers, Sequences, FiniteSets, TLC

\* ------------------------------------------------------------------ bounds
\* Largest size in bytes of the remote resource.
MaxSize == 4
\* Largest number of connections (chunk threads) of one download.
MaxConn == 3
\* Number of times the same destination is downloaded (a later run of the
\* program downloads the same URL to the same path).
MaxInvocations == 2
\* Largest number of members of an outer archive.
MaxMembers == 2
\* Largest section number of a member name.
MaxSection == 2
\* Largest number of members of an archive in a run of main.
MaxMainMembers == 2
\* Number of times the program is started.
MaxRuns == 2

\* ------------------------------------------------------------------- state
VARIABLES
  \* --- download_file_with_multiple_connections / download_chunk
  remoteSize,       \* size in bytes of the resource the server holds
  num_connections,  \* the parameter num_connections
  total_size,       \* the local total_size (content-length, 0 when not reported;
                    \* -1 while the local is not assigned)
  dpc,              \* position of the calling thread in the function
  di,               \* the loop index i of the loop the caller is in
  ranges,           \* the (start, end) pairs computed so far, in index order
  th,               \* th[i]: position of chunk thread i in download_chunk
  parts,            \* parts[i]: the file "<filename>.part<i>"
  dest,             \* the file "<filename>"
  ret,              \* the value returned: "none" until the function returns
  created,          \* chunk indices whose temporary file this call opened
  missingAt,        \* the chunk index found missing by the assembly, or -1
  outOfOrder,       \* some chunk thread ended before a lower-indexed one
  invocation        \* how many times the download was invoked

dlVars == <<remoteSize, num_connections, total_size, dpc, di, ranges, th,
            parts, dest, ret, created, missingAt, outOfOrder, invocation>>

VARIABLES
  \* --- process_downloaded_zip
  zip_filepath,     \* the parameter zip_filepath, as a name of the directory
  zipOk,            \* whether zipfile.ZipFile can open the downloaded file
  members,          \* top_level_zip.infolist(): the members of the outer archive
  uf,               \* the parameter uf
  turno,            \* the parameter turno
  zpc,              \* position in process_downloaded_zip
  zi,               \* index (from 1) of the member the for loop is at
  scratch,          \* the names of the files in COMPRESSED_LOG_DIRECTORY
  logdModel,        \* what the file logd.dat of the directory holds
  log_files_inside, \* the local log_files_inside: unbound, or a set of names
  exc,              \* an exception is propagating
  data,             \* the dictionary data: section_id -> section_data
  scratchBefore,    \* the directory as it was when the current member started
  upserted          \* indices of the members whose record reached data

zipVars == <<zip_filepath, zipOk, members, uf, turno, zpc, zi, scratch, logdModel,
             log_files_inside, exc, data, scratchBefore, upserted>>

VARIABLES
  \* --- main, LoadDataDict, DumpDataDict
  mpc,              \* position in main
  wi,               \* index (from 1) of the worklist entry the for loop is at
  disk,             \* the file MODELO_DE_URNA_PICKLE
  run,              \* how many times the program was started
  wstate,           \* wstate[k]: what this run has done with worklist entry k
  saved             \* the file as the last completed DumpDataDict left it

mainVars == <<mpc, wi, disk, run, wstate, saved>>

VARIABLES
  \* --- two evaluations of the merge on the same store, side by side
  upc,              \* "seed" while the store is built, then what was applied
  uarg,             \* the arguments applied
  ua,               \* the store after the first way of applying them
  ub,               \* the store after the second way
  view              \* what LoadModeloUrnasDataFrame made of the store

upVars == <<upc, uarg, ua, ub, view>>

VARIABLES
  \* --- the harvest run again over the same remote data
  remoteArch,       \* remoteArch[k]: the archive the server holds for entry k
  first             \* the persisted file as the first run left it at its end

rrVars == <<remoteArch, first>>

vars == <<dlVars, zipVars, mainVars, upVars, rrVars>>

notDL == <<zipVars, mainVars, upVars, rrVars>>
notZip == <<dlVars, mainVars, upVars, rrVars>>

\* ------------------------------------------------------------------- files
\* A file of the file system: absent, or present with its bytes.
NoFile == [exists |-> FALSE, bytes |-> <<>>]
File(b) == [exists |-> TRUE, bytes |-> b]

\* The resource on the server: byte at offset o is Remote[o + 1]. Every byte is
\* distinct, so any misplaced, missing or repeated byte shows.
Remote == [k \in 1..remoteSize |-> k]

Min(a, b) == IF a < b THEN a ELSE b

\* ------------------------------------------------------------ chunk ranges
\* chunk_size = total_size // num_connections
ChunkSize(T, N) == T \div N

\* start = i * chunk_size
ChunkStart(T, N, i) == i * ChunkSize(T, N)

\* A range computation that forgets the remainder of the division.
ChunkEndNoRemainder(T, N, i) == ChunkStart(T, N, i) + ChunkSize(T, N) - 1

\* end = start + chunk_size - 1, and total_size - 1 for the last chunk
ChunkEnd(T, N, i) ==
  IF i = N - 1 THEN T - 1 ELSE ChunkStart(T, N, i) + ChunkSize(T, N) - 1

\* The body the server sends for "Range: bytes=s-e": the bytes at offsets
\* s..e of the resource (none when e < s; the server is taken to honour the
\* range exactly).
RangeBody(s, e) ==
  LET last == Min(e, remoteSize - 1)
      n == IF last < s THEN 0 ELSE last - s + 1
  IN [k \in 1..n |-> Remote[s + k]]

\* The body chunk thread i is to receive.
ChunkBody(i) == RangeBody(ranges[i + 1][1], ranges[i + 1][2])

Chunks == 0..(num_connections - 1)

\* ---------------------------------------------------------- download: Init
InitDL ==
  /\ remoteSize \in 1..MaxSize
  /\ num_connections \in 1..MaxConn
  /\ total_size = -1
  /\ dpc = "head"
  /\ di = 0
  /\ ranges = <<>>
  /\ th = [i \in 0..(MaxConn - 1) |-> "idle"]
  /\ parts = [i \in 0..(MaxConn - 1) |-> NoFile]
  /\ dest = NoFile
  /\ ret = "none"
  /\ created = {}
  /\ missingAt = -1
  /\ outOfOrder = FALSE
  /\ invocation = 1

\* ------------------------------------------------------- download: actions
\* requests.head raises, or raise_for_status does: the except clause returns False.
HeadError ==
  /\ dpc = "head"
  /\ UNCHANGED notDL
  /\ dpc' = "done"
  /\ ret' = "False"
  /\ UNCHANGED <<remoteSize, num_connections, total_size, di, ranges, th,
                 parts, dest, created, missingAt, outOfOrder, invocation>>

\* A function without the test of total_size: with no content-length it goes
\* on to compute ranges for a size of 0.
HeadNoSizeUnchecked ==
  /\ dpc = "head"
  /\ UNCHANGED notDL
  /\ total_size' = 0
  /\ dpc' = "spawn"
  /\ di' = 0
  /\ UNCHANGED <<remoteSize, num_connections, ranges, th,
                 parts, dest, ret, created, missingAt, outOfOrder, invocation>>

\* The response carries no content-length: total_size is 0 and the function
\* returns False.
HeadNoSize ==
  /\ dpc = "head"
  /\ UNCHANGED notDL
  /\ total_size' = 0
  /\ dpc' = "done"
  /\ ret' = "False"
  /\ UNCHANGED <<remoteSize, num_connections, di, ranges, th,
                 parts, dest, created, missingAt, outOfOrder, invocation>>

\* The response carries the size of the resource.
HeadOk ==
  /\ dpc = "head"
  /\ UNCHANGED notDL
  /\ total_size' = remoteSize
  /\ dpc' = "spawn"
  /\ di' = 0
  /\ UNCHANGED <<remoteSize, num_connections, ranges, th,
                 parts, dest, ret, created, missingAt, outOfOrder, invocation>>

\* One iteration of the loop that computes a range and starts its thread;
\* after the last one the caller goes on to the joins.
Spawn ==
  /\ dpc = "spawn"
  /\ UNCHANGED notDL
  /\ IF di < num_connections
       THEN /\ ranges' = Append(ranges,
                 <<ChunkStart(total_size, num_connections, di),
                   ChunkEnd(total_size, num_connections, di)>>)
            /\ th' = [th EXCEPT ![di] = "started"]
            /\ di' = di + 1
            /\ dpc' = dpc
       ELSE /\ dpc' = "join"
            /\ di' = 0
            /\ UNCHANGED <<ranges, th>>
  /\ UNCHANGED <<remoteSize, num_connections, total_size,
                 parts, dest, ret, created, missingAt, outOfOrder, invocation>>

\* Whether a chunk thread with a lower index than i is still to end.
LowerRunning(i) == \E j \in Chunks : j < i /\ th[j] \in {"started", "writing"}

\* download_chunk: requests.get or raise_for_status raises RequestException;
\* the except clause prints and the thread ends, no file touched.
RequestFail(i) ==
  /\ th[i] = "started"
  /\ UNCHANGED notDL
  /\ th' = [th EXCEPT ![i] = "failed"]
  /\ outOfOrder' = (outOfOrder \/ LowerRunning(i))
  /\ UNCHANGED <<remoteSize, num_connections, total_size, dpc, di, ranges,
                 parts, dest, ret, created, missingAt, invocation>>

\* download_chunk: the response is good and open(chunk_path, 'wb') creates or
\* truncates the temporary file.
OpenChunk(i) ==
  /\ th[i] = "started"
  /\ UNCHANGED notDL
  /\ th' = [th EXCEPT ![i] = "writing"]
  /\ parts' = [parts EXCEPT ![i] = File(<<>>)]
  /\ created' = created \cup {i}
  /\ UNCHANGED <<remoteSize, num_connections, total_size, dpc, di, ranges,
                 dest, ret, missingAt, outOfOrder, invocation>>

\* download_chunk: one iteration of the iter_content loop writes the next k
\* bytes of the body (as many as the network delivered).
WriteChunk(i) ==
  /\ th[i] = "writing"
  /\ UNCHANGED notDL
  /\ LET body == ChunkBody(i)
         have == Len(parts[i].bytes)
     IN /\ have < Len(body)
        /\ \E k \in 1..(Len(body) - have) :
             parts' = [parts EXCEPT ![i] =
                         File(parts[i].bytes \o SubSeq(body, have + 1, have + k))]
  /\ UNCHANGED <<remoteSize, num_connections, total_size, dpc, di, ranges, th,
                 dest, ret, created, missingAt, outOfOrder, invocation>>

\* download_chunk: the connection breaks while the body is being read;
\* iter_content raises a RequestException, the with block closes the file with
\* the bytes written so far, the except clause prints and the thread ends.
StreamFail(i) ==
  /\ th[i] = "writing"
  /\ UNCHANGED notDL
  /\ Len(parts[i].bytes) < Len(ChunkBody(i))
  /\ th' = [th EXCEPT ![i] = "failed"]
  /\ outOfOrder' = (outOfOrder \/ LowerRunning(i))
  /\ UNCHANGED <<remoteSize, num_connections, total_size, dpc, di, ranges,
                 parts, dest, ret, created, missingAt, invocation>>

\* download_chunk: the whole body was written and the thread ends.
FinishChunk(i) ==
  /\ th[i] = "writing"
  /\ UNCHANGED notDL
  /\ Len(parts[i].bytes) = Len(ChunkBody(i))
  /\ th' = [th EXCEPT ![i] = "done"]
  /\ outOfOrder' = (outOfOrder \/ LowerRunning(i))
  /\ UNCHANGED <<remoteSize, num_connections, total_size, dpc, di, ranges,
                 parts, dest, ret, created, missingAt, invocation>>

\* A join that returns at once.
JoinedNoWait(i) == TRUE

\* thread.join() returns once thread i has ended.
Joined(i) == th[i] \in {"done", "failed"}

\* One iteration of the loop of joins; after the last one the caller goes on
\* to the assembly.
Join ==
  /\ dpc = "join"
  /\ UNCHANGED notDL
  /\ IF di < num_connections
       THEN /\ Joined(di)
            /\ di' = di + 1
            /\ dpc' = dpc
       ELSE /\ dpc' = "open"
            /\ di' = 0
  /\ UNCHANGED <<remoteSize, num_connections, total_size, ranges, th,
                 parts, dest, ret, created, missingAt, outOfOrder, invocation>>

\* open(filename, 'wb') creates or truncates the destination file.
OpenDest ==
  /\ dpc = "open"
  /\ UNCHANGED notDL
  /\ dest' = File(<<>>)
  /\ dpc' = "combine"
  /\ di' = 0
  /\ UNCHANGED <<remoteSize, num_connections, total_size, ranges, th,
                 parts, ret, created, missingAt, outOfOrder, invocation>>

\* An assembly that takes the chunk files last index first.
AssembledChunkReversed(i) == num_connections - 1 - i

\* The chunk file the i-th iteration of the assembly loop reads: part i.
AssembledChunk(i) == i

\* One iteration of the assembly loop: an existing chunk file is appended to
\* the destination and removed; a missing one makes the function return False
\* from inside the with block, which closes the destination file. After the
\* last iteration the function returns True.
Combine ==
  /\ dpc = "combine"
  /\ UNCHANGED notDL
  /\ IF di < num_connections
       THEN LET c == AssembledChunk(di)
            IN IF parts[c].exists
                 THEN /\ dest' = File(dest.bytes \o parts[c].bytes)
                      /\ parts' = [parts EXCEPT ![c] = NoFile]
                      /\ di' = di + 1
                      /\ UNCHANGED <<dpc, ret, missingAt>>
                 ELSE /\ ret' = "False"
                      /\ missingAt' = c
                      /\ dpc' = "done"
                      /\ UNCHANGED <<dest, parts, di>>
       ELSE /\ ret' = "True"
            /\ dpc' = "done"
            /\ UNCHANGED <<dest, parts, di, missingAt>>
  /\ UNCHANGED <<remoteSize, num_connections, total_size, ranges, th,
                 created, outOfOrder, invocation>>

\* main calls the function again for the same URL and path (a later run of the
\* program). After a True the caller, process_downloaded_zip, has removed the
\* destination file; after a False main went on and the files stay as they are.
Reinvoke ==
  /\ dpc = "done"
  /\ UNCHANGED notDL
  /\ invocation < MaxInvocations
  /\ invocation' = invocation + 1
  /\ dest' = IF ret = "True" THEN NoFile ELSE dest
  /\ dpc' = "head"
  /\ di' = 0
  /\ total_size' = -1
  /\ ranges' = <<>>
  /\ th' = [i \in 0..(MaxConn - 1) |-> "idle"]
  /\ ret' = "none"
  /\ created' = {}
  /\ missingAt' = -1
  /\ outOfOrder' = FALSE
  /\ UNCHANGED <<remoteSize, num_connections, parts>>

\* --------------------------------------------------------- section records
\* The machine-model labels a log can carry; 'UE2020' is the modern machine.
Labels == {"UE2020", "UE2015"}

\* 'MODELO_URNA_%sT' % turno
MODELO_URNA_TEMPLATE(t) == IF t = 1 THEN "MODELO_URNA_1T" ELSE "MODELO_URNA_2T"

RECURSIVE ToInt(_)
\* int(s) of a string of decimal digits, given as the sequence of its digits.
ToInt(digits) ==
  IF digits = <<>> THEN 0
  ELSE 10 * ToInt(SubSeq(digits, 1, Len(digits) - 1)) + digits[Len(digits)]

\* An identifier that leaves the section number out.
SectionIdWithoutSection(u, cd, nz, ns) == <<u, cd, nz, 0>>

\* f'{uf}_{cd_municipio}_{nr_zona}_{nr_secao}': the parts in order (the
\* separator cannot occur inside a part, so the parts determine the string).
SectionId(u, cd, nz, ns) == <<u, cd, nz, ns>>

\* The default of data.get(section_id, {...}): a record with the four location
\* keys and no other key ("absent" stands for a key the dictionary lacks).
NewSection(sid, cd, nz, ns) ==
  [ID_SECAO |-> sid, CD_MUNICIPIO |-> cd, NR_ZONA |-> nz, NR_SECAO |-> ns,
   MODELO_URNA_1T |-> "absent", MODELO_URNA_2T |-> "absent",
   SE_UE2020 |-> "absent"]

\* data with data[sid] = rec
Put(d, sid, rec) ==
  [k \in (DOMAIN d) \cup {sid} |-> IF k = sid THEN rec ELSE d[k]]

\* An upsert that derives the flag from the model the record held for the round
\* before the new model is written.
UpsertStaleFlag(d, sid, cd, nz, ns, t, parsed) ==
  LET section_data == IF sid \in DOMAIN d THEN d[sid] ELSE NewSection(sid, cd, nz, ns)
      old == section_data[MODELO_URNA_TEMPLATE(t)]
      flagged == IF old = "UE2020"
                   THEN [section_data EXCEPT !.SE_UE2020 = "True"]
                   ELSE IF old \in Labels
                          THEN [section_data EXCEPT !.SE_UE2020 = "False"]
                          ELSE section_data
  IN Put(d, sid, [flagged EXCEPT ![MODELO_URNA_TEMPLATE(t)] =
                    IF parsed = "raise" THEN "None" ELSE parsed])

\* An upsert that stores nothing when the model could not be parsed.
UpsertDropsUnparsed(d, sid, cd, nz, ns, t, parsed) ==
  LET section_data == IF sid \in DOMAIN d THEN d[sid] ELSE NewSection(sid, cd, nz, ns)
  IN IF parsed = "raise"
       THEN d
       ELSE Put(d, sid, [section_data EXCEPT
                           !.SE_UE2020 = IF parsed = "UE2020" THEN "True" ELSE "False",
                           ![MODELO_URNA_TEMPLATE(t)] = parsed])

\* The get-or-create and merge of one section: parsed is the label
\* GetModeloUrnaFromLogFile returned, or "raise" when it raised. A label sets
\* SE_UE2020 and the round's model; an exception leaves SE_UE2020 as it is and
\* stores the string 'None' as the round's model.
Upsert(d, sid, cd, nz, ns, t, parsed) ==
  LET section_data == IF sid \in DOMAIN d THEN d[sid] ELSE NewSection(sid, cd, nz, ns)
      flagged == IF parsed = "raise"
                   THEN section_data
                   ELSE [section_data EXCEPT !.SE_UE2020 =
                           IF parsed = "UE2020" THEN "True" ELSE "False"]
  IN Put(d, sid, [flagged EXCEPT ![MODELO_URNA_TEMPLATE(t)] =
                    IF parsed = "raise" THEN "None" ELSE parsed])

\* ------------------------------------------------------- archive members
\* Names of files of the scratch directory: the downloaded archive, the file
\* extracted for member k, and the entries an inner archive unpacks.
ZipName(w) == <<"zip", w>>
LogjezName(k) == <<"logjez", k>>
LogdName == <<"entry", 1>>
SiblingName == <<"entry", 2>>

\* The digit groups of a member name for section number s: municipality 00001,
\* zone 0001, section 000s.
Groups(s) == << <<0, 0, 0, 0, 1>>, <<0, 0, 0, 1>>, <<0, 0, 0, s>> >>

\* A member of the outer archive:
\*   suffix   its name ends with 'logjez'
\*   outer    what top_level_zip.extract does with it: "ok"; "badheader" (it
\*            raises BadZipFile before the target file is created); "badcrc"
\*            (it raises BadZipFile after the target file was written)
\*   inner    what py7zr does with the extracted file: "ok"; "badopen"
\*            (SevenZipFile raises); "badextract" (extractall raises)
\*   entries  the names the inner archive holds
\*   matches  ZIPPED_LOG_FILENAME_PATTERN matches the name, with groups
\*   model    what its logd.dat holds: a label, or "notoken"
Member(sfx, o, i, e, mt, s, md) ==
  [suffix |-> sfx, outer |-> o, inner |-> i, entries |-> e, matches |-> mt,
   groups |-> Groups(s), model |-> md]

\* Members that are well formed: every stage succeeds on them.
GoodMembers ==
  { Member(TRUE, "ok", "ok", {LogdName}, TRUE, s, md) :
      s \in 1..MaxSection, md \in Labels }

MemberKinds ==
  GoodMembers
  \cup { Member(TRUE, "ok", "ok", {LogdName}, TRUE, s, "notoken") : s \in 1..MaxSection }
  \cup { Member(FALSE, "ok", "ok", {LogdName}, FALSE, 1, "notoken"),
         Member(TRUE, "badheader", "ok", {LogdName}, TRUE, 1, "UE2020"),
         Member(TRUE, "badcrc", "ok", {LogdName}, TRUE, 1, "UE2020"),
         Member(TRUE, "ok", "badopen", {}, TRUE, 1, "UE2020"),
         Member(TRUE, "ok", "badextract", {LogdName, SiblingName}, TRUE, 1, "UE2020"),
         Member(TRUE, "ok", "ok", {LogdName, SiblingName}, FALSE, 1, "UE2020"),
         Member(TRUE, "ok", "badopen", {}, FALSE, 1, "UE2020"),
         Member(TRUE, "ok", "ok", {SiblingName}, TRUE, 1, "UE2020") }

RECURSIVE SeqsUpTo(_, _)
\* The sequences of at most n elements of S.
SeqsUpTo(S, n) ==
  IF n = 0 THEN {<<>>}
  ELSE LET shorter == SeqsUpTo(S, n - 1)
       IN shorter \cup { Append(q, x) : q \in shorter, x \in S }

Unbound == [bound |-> FALSE, names |-> {}]
Bound(ns) == [bound |-> TRUE, names |-> ns]

\* GetModeloUrnaFromLogFile(plain_log_file_path): the label after
\* 'Modelo de Urna: ' in logd.dat; it raises when the file is missing
\* (codecs.open) or holds no such token (search returns None).
GetModeloUrnaFromLogFile(files, content) ==
  IF LogdName \notin files THEN "raise"
  ELSE IF content \in Labels THEN content ELSE "raise"

\* ------------------------------------------------- process_downloaded_zip
InitZip ==
  /\ zipOk \in BOOLEAN
  /\ members \in SeqsUpTo(MemberKinds, MaxMembers)
  /\ (~zipOk => members = <<>>)
  /\ uf = "XX"
  /\ turno \in {1, 2}
  /\ zpc = "open"
  /\ zi = 1
  /\ zip_filepath = ZipName(1)
  /\ scratch = {ZipName(1)}
  /\ logdModel = "notoken"
  /\ log_files_inside = Unbound
  /\ exc = FALSE
  /\ data = <<>>
  /\ scratchBefore = {ZipName(1)}
  /\ upserted = {}

\* zipfile.ZipFile(zip_filepath): a corrupted archive raises BadZipFile.
ZOpen ==
  /\ zpc = "open"
  /\ UNCHANGED notZip
  /\ IF zipOk THEN zpc' = "loop" /\ exc' = exc
              ELSE zpc' = "except" /\ exc' = TRUE
  /\ UNCHANGED <<zip_filepath, zipOk, members, uf, turno, zi, scratch, logdModel,
                 log_files_inside, data, scratchBefore, upserted>>

\* The head of the for loop with the suffix test and the first-level
\* extraction, which stands outside the inner try: an exception of extract
\* leaves the loop for the outer except clauses.
ZLoop ==
  /\ zpc = "loop"
  /\ UNCHANGED notZip
  /\ scratchBefore' = scratch
  /\ IF zi > Len(members)
       THEN zpc' = "finally" /\ UNCHANGED <<zi, scratch, exc>>
       ELSE LET m == members[zi]
            IN IF ~m.suffix
                 THEN zi' = zi + 1 /\ UNCHANGED <<zpc, scratch, exc>>
                 ELSE /\ zi' = zi
                      /\ scratch' = IF m.outer = "badheader" THEN scratch
                                    ELSE scratch \cup {LogjezName(zi)}
                      /\ exc' = (m.outer # "ok")
                      /\ zpc' = IF m.outer = "ok" THEN "inner" ELSE "except"
  /\ UNCHANGED <<zip_filepath, zipOk, members, uf, turno, logdModel, log_files_inside,
                 data, upserted>>

\* The second-level extraction: SevenZipFile, getnames, extractall. A failure
\* of the open leaves log_files_inside as it was; a failure of extractall comes
\* after getnames and after some of the entries were written.
ZInner ==
  /\ zpc = "inner"
  /\ UNCHANGED notZip
  /\ LET m == members[zi]
     IN CASE m.inner = "badopen" ->
               /\ exc' = TRUE
               /\ UNCHANGED <<scratch, logdModel, log_files_inside>>
          [] m.inner = "badextract" ->
               /\ exc' = TRUE
               /\ log_files_inside' = Bound(m.entries)
               /\ \E written \in SUBSET m.entries :
                    /\ scratch' = scratch \cup written
                    /\ logdModel' = IF LogdName \in written THEN m.model
                                    ELSE logdModel
          [] OTHER ->
               /\ exc' = exc
               /\ log_files_inside' = Bound(m.entries)
               /\ scratch' = scratch \cup m.entries
               /\ logdModel' = IF LogdName \in m.entries THEN m.model
                               ELSE logdModel
  /\ zpc' = IF members[zi].inner = "ok" THEN "parse" ELSE "cleanup"
  /\ UNCHANGED <<zip_filepath, zipOk, members, uf, turno, zi, data, scratchBefore, upserted>>

\* A parse step without the name test: every extracted member is merged.
ZParseNoMatchTest ==
  /\ zpc = "parse"
  /\ UNCHANGED notZip
  /\ LET m == members[zi]
         cd_municipio == ToInt(m.groups[1])
         nr_zona == ToInt(m.groups[2])
         nr_secao == ToInt(m.groups[3])
         section_id == SectionId(uf, cd_municipio, nr_zona, nr_secao)
     IN /\ data' = Upsert(data, section_id, cd_municipio, nr_zona, nr_secao, turno,
                          GetModeloUrnaFromLogFile(scratch, logdModel))
        /\ upserted' = upserted \cup {zi}
  /\ zpc' = "cleanup"
  /\ UNCHANGED <<zip_filepath, zipOk, members, uf, turno, zi, scratch, logdModel,
                 log_files_inside, exc, scratchBefore>>

\* The name match, the section id, the get-or-create, the parse of the log and
\* the store of the record. A name that does not match continues the loop
\* (through the finally clause) with data untouched.
ZParse ==
  /\ zpc = "parse"
  /\ UNCHANGED notZip
  /\ LET m == members[zi]
         cd_municipio == ToInt(m.groups[1])
         nr_zona == ToInt(m.groups[2])
         nr_secao == ToInt(m.groups[3])
         section_id == SectionId(uf, cd_municipio, nr_zona, nr_secao)
     IN IF ~m.matches
          THEN UNCHANGED <<data, upserted>>
          ELSE /\ data' = Upsert(data, section_id, cd_municipio, nr_zona,
                                 nr_secao, turno,
                                 GetModeloUrnaFromLogFile(scratch, logdModel))
               /\ upserted' = upserted \cup {zi}
  /\ zpc' = "cleanup"
  /\ UNCHANGED <<zip_filepath, zipOk, members, uf, turno, zi, scratch, logdModel,
                 log_files_inside, exc, scratchBefore>>

\* The inner finally clause: the extracted member is removed, then every name
\* of log_files_inside. When log_files_inside was never bound the loop over it
\* raises UnboundLocalError. With an exception propagating the for loop is
\* left for the outer except clause; otherwise the next member follows.
\* (logdModel is the content of the extracted log: none once it is removed.)
ZCleanup ==
  /\ zpc = "cleanup"
  /\ UNCHANGED notZip
  /\ IF log_files_inside.bound
       THEN /\ scratch' = (scratch \ {LogjezName(zi)}) \ log_files_inside.names
            /\ exc' = exc
            /\ IF exc THEN zpc' = "except" /\ zi' = zi
                      ELSE zpc' = "loop" /\ zi' = zi + 1
       ELSE /\ scratch' = scratch \ {LogjezName(zi)}
            /\ exc' = TRUE
            /\ zpc' = "except"
            /\ zi' = zi
  /\ logdModel' = IF LogdName \in scratch' THEN logdModel ELSE "notoken"
  /\ UNCHANGED <<zip_filepath, zipOk, members, uf, turno, log_files_inside,
                 data, scratchBefore, upserted>>

\* A function without except clauses: the finally clause runs and the
\* exception leaves process_downloaded_zip and main.
ZExceptUncaught ==
  /\ zpc = "except"
  /\ UNCHANGED <<dlVars, upVars, rrVars>>
  /\ exc' = FALSE
  /\ scratch' = scratch \ {zip_filepath}
  /\ zpc' = "idle"
  /\ mpc' = "dead"
  /\ UNCHANGED <<wi, disk, run, wstate, saved>>
  /\ UNCHANGED <<zip_filepath, zipOk, members, uf, turno, zi, logdModel,
                 log_files_inside, data, scratchBefore, upserted>>

\* except zipfile.BadZipFile / except Exception: the error is printed.
ZExcept ==
  /\ zpc = "except"
  /\ UNCHANGED notZip
  /\ exc' = FALSE
  /\ zpc' = "finally"
  /\ UNCHANGED <<zip_filepath, zipOk, members, uf, turno, zi, scratch, logdModel,
                 log_files_inside, data, scratchBefore, upserted>>

\* The outer finally clause removes the downloaded archive.
ZFinally ==
  /\ zpc = "finally"
  /\ UNCHANGED notZip
  /\ scratch' = scratch \ {zip_filepath}
  /\ zpc' = "done"
  /\ UNCHANGED <<zip_filepath, zipOk, members, uf, turno, zi, logdModel,
                 log_files_inside, exc, data, scratchBefore, upserted>>

\* ------------------------------------------------------------------- main
\* The entries of LISTA_TURNO_UFS for one region, in the order of the list.
Worklist == << <<1, "AC">>, <<2, "AC">> >>

\* The members the archives of a run are made of.
MainKinds ==
  { Member(TRUE, "ok", "ok", {LogdName}, TRUE, 1, "UE2020"),
    Member(TRUE, "ok", "ok", {LogdName}, TRUE, 1, "UE2015"),
    Member(TRUE, "ok", "ok", {LogdName}, TRUE, 1, "notoken"),
    Member(TRUE, "ok", "badopen", {}, TRUE, 1, "UE2020") }

\* The persisted file: absent; "partial" from the open(.., 'wb') that truncates
\* it until pickle.dump has written the whole dictionary; "complete" with the
\* dictionary it holds.
NoDisk == [state |-> "absent", content |-> <<>>]
PartialDisk == [state |-> "partial", content |-> <<>>]
CompleteDisk(d) == [state |-> "complete", content |-> d]

\* No entry of the worklist touched yet.
AllPending == [k \in 1..Len(Worklist) |-> "Pending"]

InitMain ==
  /\ mpc = "load"
  /\ wi = 1
  /\ disk = NoDisk
  /\ run = 1
  /\ wstate = AllPending
  /\ saved = NoDisk

\* A load without the except clause: a missing file ends the program.
LoadDataDictNoHandler ==
  /\ mpc = "load"
  /\ UNCHANGED <<dlVars, upVars, rrVars>>
  /\ CASE disk.state = "complete" -> data' = disk.content /\ mpc' = "next"
       [] OTHER -> data' = data /\ mpc' = "dead"
  /\ UNCHANGED <<wi, disk, run, wstate, saved>>
  /\ UNCHANGED <<zip_filepath, zipOk, members, uf, turno, zpc, zi, scratch,
                 logdModel, log_files_inside, exc, scratchBefore, upserted>>

\* LoadDataDict: the dictionary of the file; {} when there is no file. A file
\* that is not a whole pickle makes pickle.load raise, which nothing catches.
LoadDataDict ==
  /\ mpc = "load"
  /\ UNCHANGED <<dlVars, upVars, rrVars>>
  /\ CASE disk.state = "absent" -> data' = <<>> /\ mpc' = "next"
       [] disk.state = "complete" -> data' = disk.content /\ mpc' = "next"
       [] OTHER -> data' = data /\ mpc' = "dead"
  /\ UNCHANGED <<wi, disk, run, wstate, saved>>
  /\ UNCHANGED <<zip_filepath, zipOk, members, uf, turno, zpc, zi, scratch,
                 logdModel, log_files_inside, exc, scratchBefore, upserted>>

\* The head of the for loop takes the next entry of the list and calls
\* download_file_with_multiple_connections for it.
DownloadStart ==
  /\ mpc = "next"
  /\ UNCHANGED <<dlVars, upVars, rrVars>>
  /\ wi <= Len(Worklist)
  /\ mpc' = "download"
  /\ wstate' = [wstate EXCEPT ![wi] = "Downloading"]
  /\ UNCHANGED <<wi, disk, run, saved, zipVars>>

\* A main that downloads an entry again when its download failed.
DownloadFailsRetry ==
  /\ mpc = "download"
  /\ UNCHANGED <<dlVars, upVars, rrVars>>
  /\ wi <= Len(Worklist)
  /\ \E left \in BOOLEAN :
       scratch' = IF left THEN scratch \cup {ZipName(wi)} ELSE scratch
  /\ mpc' = "next"
  /\ wstate' = [wstate EXCEPT ![wi] = "Pending"]
  /\ UNCHANGED <<wi, disk, run, saved>>
  /\ UNCHANGED <<zip_filepath, zipOk, members, uf, turno, zpc, zi, logdModel,
                 log_files_inside, exc, data, scratchBefore, upserted>>

\* A main that stops at the first download that fails.
DownloadFailsAbort ==
  /\ mpc = "download"
  /\ UNCHANGED <<dlVars, upVars, rrVars>>
  /\ wi <= Len(Worklist)
  /\ \E left \in BOOLEAN :
       scratch' = IF left THEN scratch \cup {ZipName(wi)} ELSE scratch
  /\ mpc' = "end"
  /\ wstate' = [wstate EXCEPT ![wi] = "Failed"]
  /\ UNCHANGED <<wi, disk, run, saved>>
  /\ UNCHANGED <<zip_filepath, zipOk, members, uf, turno, zpc, zi, logdModel,
                 log_files_inside, exc, data, scratchBefore, upserted>>

\* download_file_with_multiple_connections returns False: main prints and
\* continues with the next entry. The destination file may have been created.
DownloadFails ==
  /\ mpc = "download"
  /\ UNCHANGED <<dlVars, upVars, rrVars>>
  /\ wi <= Len(Worklist)
  /\ \E left \in BOOLEAN :
       scratch' = IF left THEN scratch \cup {ZipName(wi)} ELSE scratch
  /\ wi' = wi + 1
  /\ mpc' = "next"
  /\ wstate' = [wstate EXCEPT ![wi] = "Failed"]
  /\ UNCHANGED <<disk, run, saved>>
  /\ UNCHANGED <<zip_filepath, zipOk, members, uf, turno, zpc, zi, logdModel,
                 log_files_inside, exc, data, scratchBefore, upserted>>

\* download_file_with_multiple_connections returns True, with the archive the
\* server holds in the destination file, and main calls process_downloaded_zip.
DownloadSucceeds ==
  /\ mpc = "download"
  /\ UNCHANGED <<dlVars, upVars, rrVars>>
  /\ wi <= Len(Worklist)
  /\ zipOk' \in BOOLEAN
  /\ members' \in SeqsUpTo(MainKinds, MaxMainMembers)
  /\ (~zipOk' => members' = <<>>)
  /\ zip_filepath' = ZipName(wi)
  /\ scratch' = scratch \cup {ZipName(wi)}
  /\ scratchBefore' = scratch \cup {ZipName(wi)}
  /\ turno' = Worklist[wi][1]
  /\ uf' = Worklist[wi][2]
  /\ zpc' = "open"
  /\ zi' = 1
  /\ log_files_inside' = Unbound
  /\ exc' = FALSE
  /\ upserted' = {}
  /\ mpc' = "process"
  /\ wstate' = [wstate EXCEPT ![wi] = "Unpacking"]
  /\ UNCHANGED <<wi, disk, run, saved, logdModel, data>>

\* DumpDataDict, first half: process_downloaded_zip has returned and
\* open(MODELO_DE_URNA_PICKLE, 'wb') truncates the file.
DumpOpen ==
  /\ mpc = "process"
  /\ UNCHANGED <<dlVars, upVars, rrVars>>
  /\ zpc = "done"
  /\ zpc' = "idle"
  /\ disk' = PartialDisk
  /\ mpc' = "saving"
  /\ UNCHANGED <<wi, run, wstate, saved>>
  /\ UNCHANGED <<zip_filepath, zipOk, members, uf, turno, zi, scratch, logdModel,
                 log_files_inside, exc, data, scratchBefore, upserted>>

\* DumpDataDict, second half: pickle.dump has written the dictionary and the
\* file is closed; the for loop goes on to the next entry (what the call of
\* process_downloaded_zip held is gone).
DumpWrite ==
  /\ mpc = "saving"
  /\ UNCHANGED <<dlVars, upVars, rrVars>>
  /\ disk' = CompleteDisk(data)
  /\ saved' = CompleteDisk(data)
  /\ wstate' = [wstate EXCEPT ![wi] = "Checkpointed"]
  /\ wi' = wi + 1
  /\ mpc' = "next"
  /\ zipOk' = TRUE
  /\ members' = <<>>
  /\ zi' = 1
  /\ log_files_inside' = Unbound
  /\ upserted' = {}
  /\ scratchBefore' = {}
  /\ UNCHANGED run
  /\ UNCHANGED <<zip_filepath, uf, turno, zpc, scratch, logdModel, exc, data>>

\* The worklist is exhausted and main returns.
MainEnd ==
  /\ mpc = "next"
  /\ UNCHANGED <<dlVars, upVars, rrVars>>
  /\ wi > Len(Worklist)
  /\ mpc' = "end"
  /\ UNCHANGED <<wi, disk, run, wstate, saved, zipVars>>

\* The process is killed: what it held in memory (the dictionary, the position
\* in the worklist, the locals of the call under way) is lost, the files stay.
Crash ==
  /\ mpc \in {"load", "next", "download", "process", "saving"}
  /\ UNCHANGED <<dlVars, upVars, rrVars>>
  /\ mpc' = "crashed"
  /\ zpc' = "idle"
  /\ data' = <<>>
  /\ zipOk' = TRUE
  /\ members' = <<>>
  /\ zi' = 1
  /\ log_files_inside' = Unbound
  /\ exc' = FALSE
  /\ upserted' = {}
  /\ scratchBefore' = {}
  /\ wi' = 1
  /\ wstate' = AllPending
  /\ zip_filepath' = ZipName(1)
  /\ uf' = "XX"
  /\ turno' = 1
  /\ UNCHANGED <<disk, run, saved>>
  /\ UNCHANGED <<scratch, logdModel>>

\* The program is started again, after a crash or after a run that ended.
Restart ==
  /\ mpc \in {"crashed", "end"}
  /\ UNCHANGED <<dlVars, upVars, rrVars>>
  /\ run < MaxRuns
  /\ run' = run + 1
  /\ mpc' = "load"
  /\ wi' = 1
  /\ data' = <<>>
  /\ wstate' = AllPending
  /\ UNCHANGED <<disk, saved>>
  /\ UNCHANGED <<zip_filepath, zipOk, members, uf, turno, zpc, zi, scratch,
                 logdModel, log_files_inside, exc, scratchBefore, upserted>>

\* ------------------------------------ the harvest over fixed remote data
\* What the server can hold for an entry: a file zipfile cannot open, or an
\* archive of at most MaxMainMembers members.
Archives ==
  { [zipOk |-> FALSE, members |-> <<>>] }
  \cup { [zipOk |-> TRUE, members |-> ms] : ms \in SeqsUpTo(MainKinds, MaxMainMembers) }

InitRerun ==
  /\ remoteArch \in [1..Len(Worklist) -> Archives]
  /\ first = NoDisk

\* download_file_with_multiple_connections returns True with the archive the
\* server holds for the entry, and main calls process_downloaded_zip.
DownloadRemote ==
  /\ mpc = "download"
  /\ UNCHANGED <<dlVars, upVars, rrVars>>
  /\ wi <= Len(Worklist)
  /\ zipOk' = remoteArch[wi].zipOk
  /\ members' = remoteArch[wi].members
  /\ zip_filepath' = ZipName(wi)
  /\ scratch' = scratch \cup {ZipName(wi)}
  /\ scratchBefore' = scratch \cup {ZipName(wi)}
  /\ turno' = Worklist[wi][1]
  /\ uf' = Worklist[wi][2]
  /\ zpc' = "open"
  /\ zi' = 1
  /\ log_files_inside' = Unbound
  /\ exc' = FALSE
  /\ upserted' = {}
  /\ mpc' = "process"
  /\ wstate' = [wstate EXCEPT ![wi] = "Unpacking"]
  /\ UNCHANGED <<wi, disk, run, saved, logdModel, data>>

\* The program is started again after a run that reached its end; the file
\* the first run left is kept for comparison.
RestartAfterEnd ==
  /\ mpc = "end"
  /\ UNCHANGED <<dlVars, upVars>>
  /\ run < MaxRuns
  /\ run' = run + 1
  /\ first' = IF run = 1 THEN disk ELSE first
  /\ mpc' = "load"
  /\ wi' = 1
  /\ data' = <<>>
  /\ wstate' = AllPending
  /\ UNCHANGED <<disk, saved, remoteArch>>
  /\ UNCHANGED <<zip_filepath, zipOk, members, uf, turno, zpc, zi, scratch,
                 logdModel, log_files_inside, exc, scratchBefore, upserted>>

\* ------------------------------------------- the merge applied in two ways
\* What GetModeloUrnaFromLogFile can hand to the merge.
Parsed == Labels \cup {"raise"}

\* The section id and location of section number s of the region "XX".
UpsertSection(d, s, t, parsed) ==
  Upsert(d, SectionId("XX", 1, 1, s), 1, 1, s, t, parsed)

\* A value of a DataFrame column is null (NaN) where the record lacks the key.
IsNull(v) == v = "absent"

\* A column that is null in every row of the store: the frame built from the
\* records has no such column, and df.<column> raises AttributeError.
NoColumn(d, col) == \A sid \in DOMAIN d : IsNull(d[sid][col])

\* A combination that prefers its second argument.
CombineFirstSwapped(a, b) == IF IsNull(b) THEN a ELSE b

\* a.combine_first(b), one row: a where a is not null, else b.
CombineFirst(a, b) == IF IsNull(a) THEN b ELSE a

\* One row of the frame LoadModeloUrnasDataFrame returns: the columns left
\* after the drop, with MODELO_URNA added and SE_UE2020 overwritten.
Row(rec) ==
  [CD_MUNICIPIO |-> rec.CD_MUNICIPIO,
   MODELO_URNA_1T |-> rec.MODELO_URNA_1T,
   MODELO_URNA_2T |-> rec.MODELO_URNA_2T,
   MODELO_URNA |-> CombineFirst(rec.MODELO_URNA_2T, rec.MODELO_URNA_1T),
   SE_UE2020 |-> (rec.MODELO_URNA_2T = "UE2020")]

\* LoadModeloUrnasDataFrame on the dictionary d it unpickled: a frame indexed
\* by section id, or an exception when a model column is missing.
LoadModeloUrnasDataFrame(d) ==
  IF NoColumn(d, "MODELO_URNA_2T") \/ NoColumn(d, "MODELO_URNA_1T")
    THEN [ok |-> FALSE, rows |-> <<>>]
    ELSE [ok |-> TRUE, rows |-> [sid \in DOMAIN d |-> Row(d[sid])]]

InitUpsert ==
  /\ upc = "seed"
  /\ uarg = [s |-> 0, t |-> 0, m1 |-> "raise", m2 |-> "raise"]
  /\ ua = <<>>
  /\ ub = <<>>
  /\ view = [ok |-> FALSE, rows |-> <<>>]

\* One more section processed into the store the comparison starts from.
USeed(s, t, parsed) ==
  /\ upc = "seed"
  /\ UNCHANGED <<dlVars, mainVars, rrVars>>
  /\ data' = UpsertSection(data, s, t, parsed)
  /\ UNCHANGED <<upc, uarg, ua, ub, view>>
  /\ UNCHANGED <<zip_filepath, zipOk, members, uf, turno, zpc, zi, scratch,
                 logdModel, log_files_inside, exc, scratchBefore, upserted>>

\* Section s processed for round 1 with m1 then round 2 with m2 (ua), and for
\* round 2 with m2 then round 1 with m1 (ub).
UCommute(s, m1, m2) ==
  /\ upc = "seed"
  /\ UNCHANGED <<dlVars, mainVars, zipVars, rrVars>>
  /\ ua' = UpsertSection(UpsertSection(data, s, 1, m1), s, 2, m2)
  /\ ub' = UpsertSection(UpsertSection(data, s, 2, m2), s, 1, m1)
  /\ uarg' = [s |-> s, t |-> 0, m1 |-> m1, m2 |-> m2]
  /\ upc' = "commuted"
  /\ UNCHANGED view

\* Section s processed for round t with m once (ua) and twice (ub).
UTwice(s, t, m) ==
  /\ upc = "seed"
  /\ UNCHANGED <<dlVars, mainVars, zipVars, rrVars>>
  /\ ua' = UpsertSection(data, s, t, m)
  /\ ub' = UpsertSection(UpsertSection(data, s, t, m), s, t, m)
  /\ uarg' = [s |-> s, t |-> t, m1 |-> m, m2 |-> m]
  /\ upc' = "twice"
  /\ UNCHANGED view

\* The reader is called on the store built so far.
UProject ==
  /\ upc = "seed"
  /\ UNCHANGED <<dlVars, mainVars, zipVars, rrVars>>
  /\ view' = LoadModeloUrnasDataFrame(data)
  /\ upc' = "projected"
  /\ UNCHANGED <<uarg, ua, ub>>

\* ------------------------------------------------ the parts left at rest
\* The downloader at rest.
IdleDL ==
  /\ remoteSize = 1
  /\ num_connections = 1
  /\ total_size = 0
  /\ dpc = "idle"
  /\ di = 0
  /\ ranges = <<>>
  /\ th = [i \in 0..(MaxConn - 1) |-> "idle"]
  /\ parts = [i \in 0..(MaxConn - 1) |-> NoFile]
  /\ dest = NoFile
  /\ ret = "none"
  /\ created = {}
  /\ missingAt = -1
  /\ outOfOrder = FALSE
  /\ invocation = 1

\* The unpacker at rest, with an empty dictionary and an empty directory.
IdleZip ==
  /\ zip_filepath = ZipName(1)
  /\ zipOk = TRUE
  /\ members = <<>>
  /\ uf = "XX"
  /\ turno = 1
  /\ zpc = "idle"
  /\ zi = 1
  /\ scratch = {}
  /\ logdModel = "notoken"
  /\ log_files_inside = Unbound
  /\ exc = FALSE
  /\ data = <<>>
  /\ scratchBefore = {}
  /\ upserted = {}

\* main not started.
IdleMain ==
  /\ mpc = "idle"
  /\ wi = 1
  /\ disk = NoDisk
  /\ run = 1
  /\ wstate = AllPending
  /\ saved = NoDisk

\* No comparison of merges under way.
IdleUpsert ==
  /\ upc = "idle"
  /\ uarg = [s |-> 0, t |-> 0, m1 |-> "raise", m2 |-> "raise"]
  /\ ua = <<>>
  /\ ub = <<>>
  /\ view = [ok |-> FALSE, rows |-> <<>>]

\* No rerun under way.
IdleRerun ==
  /\ remoteArch = [k \in 1..Len(Worklist) |-> [zipOk |-> FALSE, members |-> <<>>]]
  /\ first = NoDisk

\* ---------------------------------------------------------- specifications
NextDL ==
  \/ HeadError
  \/ HeadNoSize
  \/ HeadOk
  \/ Spawn
  \/ \E i \in Chunks : RequestFail(i)
  \/ \E i \in Chunks : OpenChunk(i)
  \/ \E i \in Chunks : WriteChunk(i)
  \/ \E i \in Chunks : StreamFail(i)
  \/ \E i \in Chunks : FinishChunk(i)
  \/ Join
  \/ OpenDest
  \/ Combine
  \/ Reinvoke

StartDL == InitDL /\ IdleZip /\ IdleMain /\ IdleUpsert /\ IdleRerun

\* One destination downloaded, MaxInvocations times over.
SpecDL == StartDL /\ [][NextDL]_vars

NextZip ==
  \/ ZOpen
  \/ ZLoop
  \/ ZInner
  \/ ZParse
  \/ ZCleanup
  \/ ZExcept
  \/ ZFinally

StartZip == InitZip /\ IdleDL /\ IdleMain /\ IdleUpsert /\ IdleRerun

\* One call of process_downloaded_zip on an empty dictionary.
SpecZip == StartZip /\ [][NextZip]_vars

NextMain ==
  \/ LoadDataDict
  \/ DownloadStart
  \/ DownloadFails
  \/ DownloadSucceeds
  \/ ZOpen
  \/ ZLoop
  \/ ZInner
  \/ ZParse
  \/ ZCleanup
  \/ ZExcept
  \/ ZFinally
  \/ DumpOpen
  \/ DumpWrite
  \/ MainEnd
  \/ Crash
  \/ Restart

StartMain == InitMain /\ IdleDL /\ IdleZip /\ IdleUpsert /\ IdleRerun

\* The program run MaxRuns times, killed at any point or run to its end.
SpecMain == StartMain /\ [][NextMain]_vars

\* One run of the program that is not killed.
NextLive ==
  \/ LoadDataDict
  \/ DownloadStart
  \/ DownloadFails
  \/ DownloadSucceeds
  \/ ZOpen
  \/ ZLoop
  \/ ZInner
  \/ ZParse
  \/ ZCleanup
  \/ ZExcept
  \/ ZFinally
  \/ DumpOpen
  \/ DumpWrite
  \/ MainEnd

\* The single thread of main keeps running: every call it makes returns (the
\* download included, its chunk fetches ending) and the next statement follows.
SpecLive == StartMain /\ [][NextLive]_vars /\ WF_vars(NextLive)

NextRerun ==
  \/ LoadDataDict
  \/ DownloadStart
  \/ DownloadRemote
  \/ ZOpen
  \/ ZLoop
  \/ ZInner
  \/ ZParse
  \/ ZCleanup
  \/ ZExcept
  \/ ZFinally
  \/ DumpOpen
  \/ DumpWrite
  \/ MainEnd
  \/ RestartAfterEnd

StartRerun == InitMain /\ InitRerun /\ IdleDL /\ IdleZip /\ IdleUpsert

\* The whole harvest run MaxRuns times to its end over the same remote data,
\* every download succeeding.
SpecRerun == StartRerun /\ [][NextRerun]_vars

NextUpsert ==
  \/ \E s \in 1..MaxSection, t \in {1, 2}, p \in Parsed : USeed(s, t, p)
  \/ \E s \in 1..MaxSection, m1 \in Parsed, m2 \in Parsed : UCommute(s, m1, m2)
  \/ \E s \in 1..MaxSection, t \in {1, 2}, m \in Parsed : UTwice(s, t, m)
  \/ UProject

StartUpsert == InitUpsert /\ IdleDL /\ IdleZip /\ IdleMain /\ IdleRerun

\* The merge applied to every store a sequence of merges can build.
SpecUpsert == StartUpsert /\ [][NextUpsert]_vars

\* ------------------------------------------------------------------ claims

\* C1: at every instant, a crash in the middle of DumpDataDict included, the
\* persisted file is either absent or a complete snapshot of the dictionary
\* written by a completed save; a reader never finds it half written.
C1_ReaderSeesCompleteSnapshot == disk.state \in {"absent", "complete"}

\* C2: when the assembly finds the temporary file of a chunk missing, the
\* download returns False and no destination file exists afterwards.
C2_MissingChunkLeavesNoDestination ==
  (dpc = "done" /\ missingAt # -1) => (ret = "False" /\ ~dest.exists)

\* C3: whenever the download returns True, the destination file holds exactly
\* the bytes [0, T) of the remote resource.
C3_SuccessMeansExactBytes ==
  (dpc = "done" /\ ret = "True") => dest = File(Remote)

\* All the ranges of the call have been computed.
RangesComputed == dpc # "idle" /\ Len(ranges) = num_connections

\* The range of chunk i (from 0) holds offset o.
InRange(i, o) == ranges[i + 1][1] <= o /\ o <= ranges[i + 1][2]

\* C4: for every size T >= 1 and connection count N >= 1 the N computed ranges
\* are contiguous (each starts one past the end of the one before, the first at
\* 0), no offset lies in two of them, every offset of [0, T) lies in one, none
\* reaches outside [0, T), and the last one ends at T - 1.
C4_RangesPartitionResource ==
  (RangesComputed /\ total_size >= 1) =>
    /\ ranges[1][1] = 0
    /\ \A i \in 1..(num_connections - 1) : ranges[i + 1][1] = ranges[i][2] + 1
    /\ ranges[num_connections][2] = total_size - 1
    /\ \A i \in Chunks : ranges[i + 1][1] >= 0 /\ ranges[i + 1][2] <= total_size - 1
    /\ \A o \in 0..(total_size - 1) :
         Cardinality({i \in Chunks : InRange(i, o)}) = 1

\* The ranges were computed for a size smaller than the number of connections.
C4_Witness ==
  RangesComputed /\ total_size >= 1 /\ total_size < num_connections

\* C5: when every chunk thread succeeded, in whatever order the threads ran and
\* ended, the download returns True and the destination file is the resource,
\* the chunks put together in the order of their indices.
C5_ReassemblyInSequenceOrder ==
  (dpc = "done" /\ \A i \in Chunks : th[i] = "done") =>
    (ret = "True" /\ dest = File(Remote))

\* A download of several chunks that all succeeded, one of them ending before a
\* chunk of lower index.
C5_Witness ==
  /\ dpc = "done"
  /\ ret = "True"
  /\ num_connections >= 2
  /\ \A i \in Chunks : th[i] = "done"
  /\ outOfOrder

\* C6: when the download returns, on every path, no temporary chunk file it
\* created is left.
C6_NoTemporaryFileRemains ==
  dpc = "done" => \A i \in created : ~parts[i].exists

\* The section id of a member whose name matches.
MemberSectionId(m) ==
  SectionId(uf, ToInt(m.groups[1]), ToInt(m.groups[2]), ToInt(m.groups[3]))

\* C7: a failure on one member does not keep the other members from being
\* processed: when process_downloaded_zip is done, every well-formed member of
\* the archive was parsed and its record is in the dictionary.
C7_FailureDoesNotAbortOtherMembers ==
  zpc = "done" =>
    \A k \in 1..Len(members) :
      members[k] \in GoodMembers =>
        (k \in upserted /\ MemberSectionId(members[k]) \in DOMAIN data)

\* C8: after a member was processed, successfully or not, the scratch directory
\* holds exactly the files it held before that member.
C8_ScratchAsBeforeMember ==
  zpc \in {"loop", "except"} => scratch = scratchBefore

\* C9: round 1 with m1 then round 2 with m2 gives the same dictionary, every
\* field of the record included, as round 2 with m2 then round 1 with m1.
C9_UpsertCommutesAcrossRounds == upc = "commuted" => ua = ub

\* C10: the same (section, round, model) merged twice gives the dictionary it
\* gives merged once.
C10_UpsertIdempotent == upc = "twice" => ub = ua

\* The unknown marker merged twice into a record that has its flag set.
C10_Witness ==
  /\ upc = "twice"
  /\ uarg.m1 = "raise"
  /\ SectionId("XX", 1, 1, uarg.s) \in DOMAIN data
  /\ data[SectionId("XX", 1, 1, uarg.s)].SE_UE2020 = "True"
  /\ ub[SectionId("XX", 1, 1, uarg.s)][MODELO_URNA_TEMPLATE(uarg.t)] = "None"

\* C11: an upsert for (section, round) on a store that already holds the
\* section's record changes nothing but that record's model for the round:
\* the store after the upsert is the store before it with that one field
\* replaced.
C11_UpsertChangesOnlyRoundModel ==
  (upc = "twice" /\ SectionId("XX", 1, 1, uarg.s) \in DOMAIN data)
    => ua = [data EXCEPT ![SectionId("XX", 1, 1, uarg.s)][MODELO_URNA_TEMPLATE(uarg.t)] =
                IF uarg.m1 = "raise" THEN "None" ELSE uarg.m1]

\* C12: the downloaded outer archive is still in the working directory while
\* its members are processed and until the save of its entry has completed.
C12_ArchiveKeptUntilSaved ==
  mpc \in {"process", "saving"} => zip_filepath \in scratch

\* C13: after a crash the persisted file is loadable and is what the last
\* completed save wrote (or absent when no save completed yet).
C13_CrashKeepsCompletedSaves == mpc = "crashed" => disk = saved

\* C14: in the frame the reader returns, a record's flag is true when its
\* round-2 model is 'UE2020', false when round 2 holds any other value, and,
\* when round 2 is absent, true exactly when the round-1 model is 'UE2020'.
C14_FlagFallsBackToRound1 ==
  (upc = "projected" /\ view.ok) =>
    \A sid \in DOMAIN data :
      view.rows[sid].SE_UE2020 =
        IF IsNull(data[sid].MODELO_URNA_2T)
          THEN data[sid].MODELO_URNA_1T = "UE2020"
          ELSE data[sid].MODELO_URNA_2T = "UE2020"

C16_FailedDownloadSkipsToNext ==
  [][\A k \in 1..Len(Worklist) :
       /\ (wstate[k] # "Failed" /\ wstate'[k] = "Failed") =>
            /\ data' = data
            /\ disk' = disk
            /\ zpc' = zpc
            /\ mpc' = "next"
            /\ wi' = k + 1
       /\ (wstate[k] = "Failed" /\ run' = run /\ mpc' # "crashed")
            => wstate'[k] = "Failed"]_vars

\* An entry was processed and saved after the entry before it failed.
C16_Witness ==
  /\ wstate[1] = "Failed"
  /\ wstate[2] = "Checkpointed"
  /\ disk.state = "complete"

\* C17: when the name of a member matches and no model can be read from its
\* log, the step that merges it leaves the section's record in the dictionary
\* with 'None' as the model of the current round and the model of the other
\* round as it was (absent for a new record).
C17_UnknownModelStillRecorded ==
  [][(/\ zpc = "parse"
      /\ zpc' = "cleanup"
      /\ members[zi].matches
      /\ GetModeloUrnaFromLogFile(scratch, logdModel) = "raise")
       => LET sid == MemberSectionId(members[zi])
              other == MODELO_URNA_TEMPLATE(3 - turno)
          IN /\ sid \in DOMAIN data'
             /\ data'[sid][MODELO_URNA_TEMPLATE(turno)] = "None"
             /\ data'[sid][other] =
                  IF sid \in DOMAIN data THEN data[sid][other] ELSE "absent"]_vars

\* A round-2 member without a model token was merged into a record that held
\* a label for round 1.
C17_Witness ==
  /\ mpc = "process"
  /\ zpc = "cleanup"
  /\ turno = 2
  /\ members[zi].matches
  /\ members[zi].model = "notoken"
  /\ MemberSectionId(members[zi]) \in DOMAIN data
  /\ data[MemberSectionId(members[zi])].MODELO_URNA_2T = "None"
  /\ data[MemberSectionId(members[zi])].MODELO_URNA_1T \in Labels

\* C18: a member whose name does not match leaves the dictionary as it is
\* through the parse step and the inner finally clause, and when it was the
\* name test that sent it to the finally clause (no exception is under way)
\* the loop goes on to the member after it.
C18_UnmatchedNameSkipped ==
  [][(zpc \in {"parse", "cleanup"} /\ ~members[zi].matches)
       => /\ data' = data
          /\ (zpc = "cleanup" /\ ~exc) => (zpc' = "loop" /\ zi' = zi + 1)]_vars

\* The archive is done; its first member failed the name test and the member
\* after it was merged.
C18_Witness ==
  /\ zpc = "done"
  /\ Len(members) = 2
  /\ members[1].suffix
  /\ ~members[1].matches
  /\ upserted = {2}
  /\ MemberSectionId(members[2]) \in DOMAIN data

\* C19: an entry that reached process_downloaded_zip never becomes Failed and
\* main leaves the call only for DumpDataDict (or by a crash); the save that
\* completes writes a file that holds, for every member merged during the
\* entry, the section's record with a model for the round.
C19_MemberFailuresStillSaved ==
  [][/\ mpc = "process" => mpc' \in {"process", "saving", "crashed"}
     /\ \A k \in 1..Len(Worklist) :
          (wstate[k] = "Unpacking" /\ run' = run /\ mpc' # "crashed") =>
             wstate'[k] \in {"Unpacking", "Checkpointed"}
     /\ (mpc = "saving" /\ mpc' = "next") =>
          /\ wstate'[wi] = "Checkpointed"
          /\ disk'.state = "complete"
          /\ \A k \in upserted :
               /\ MemberSectionId(members[k]) \in DOMAIN disk'.content
               /\ disk'.content[MemberSectionId(members[k])][MODELO_URNA_TEMPLATE(turno)]
                    # "absent"]_vars

\* DumpDataDict was called for an archive in which one member was merged and
\* a later member failed.
C19_Witness ==
  /\ mpc = "saving"
  /\ Len(members) = 2
  /\ members[2].inner = "badopen"
  /\ upserted = {1}
  /\ MemberSectionId(members[1]) \in DOMAIN data

\* C20: LoadDataDict with no file returns the empty dictionary, with a file
\* the dictionary it holds, and in both cases main enters the for loop at the
\* first entry.
C20_LoadWithoutFileIsEmpty ==
  [][(mpc = "load" /\ mpc' # "crashed" /\ disk.state \in {"absent", "complete"})
       => /\ mpc' = "next"
          /\ wi' = 1
          /\ data' = IF disk.state = "absent" THEN <<>> ELSE disk.content]_vars

\* The first entry is being processed in a run that found no file.
C20_Witness ==
  /\ disk = NoDisk
  /\ mpc = "process"
  /\ wi = 1
  /\ wstate[1] = "Unpacking"

\* C21: while the caller opens the destination file or assembles it, every
\* chunk thread of the call has ended, with success or with failure.
C21_AssemblyAfterAllThreadsEnded ==
  dpc \in {"open", "combine"} => \A i \in Chunks : th[i] \in {"done", "failed"}

\* The assembly is about to start after threads that ended out of index order,
\* one of them with a failure.
C21_Witness ==
  /\ dpc = "open"
  /\ num_connections >= 2
  /\ outOfOrder
  /\ \E i \in Chunks : th[i] = "failed"
  /\ \E i \in Chunks : th[i] = "done"

\* C22: when the probe reports no size the call has returned False with no
\* range computed, no chunk thread started and no temporary file opened, and
\* the step that found the size missing touched neither the destination file
\* nor any temporary file.
C22_NoSizeFailsBeforeAnyRequest ==
  /\ [](total_size = 0 =>
         /\ dpc = "done"
         /\ ret = "False"
         /\ ranges = <<>>
         /\ created = {}
         /\ \A i \in 0..(MaxConn - 1) : th[i] = "idle")
  /\ [][total_size' = 0 => (dest' = dest /\ parts' = parts)]_vars

\* A first call that found no size: nothing was created.
C22_Witness ==
  /\ total_size = 0
  /\ dpc = "done"
  /\ invocation = 1
  /\ ~dest.exists
  /\ \A i \in 0..(MaxConn - 1) : ~parts[i].exists

C25_StoredFlagAgreesWithRound2 ==
  \A sid \in DOMAIN data :
    data[sid].SE_UE2020 # "absent" =>
      ((data[sid].SE_UE2020 = "True") <=> (data[sid].MODELO_URNA_2T = "UE2020"))

\* C26: in a run that is not killed and whose downloads return, every entry of
\* the worklist ends Checkpointed or Failed and main ends.
C26_EveryWorkItemEndsAndRunTerminates ==
  <>(mpc = "end" /\ \A k \in 1..Len(Worklist) : wstate[k] \in {"Checkpointed", "Failed"})

\* The run has ended with one entry saved and the other failed.
C26_Witness ==
  /\ mpc = "end"
  /\ wstate[1] = "Checkpointed"
  /\ wstate[2] = "Failed"

\* C24: when a later run of the whole harvest over the same remote data has
\* ended, the persisted file equals the one the first run left: the same
\* section ids with the same records.
C24_RerunLeavesStoreEqual ==
  (mpc = "end" /\ run >= 2) => disk = first

\* A second run has ended on a store whose record was written in both rounds.
C24_Witness ==
  /\ mpc = "end"
  /\ run = 2
  /\ disk.state = "complete"
  /\ disk = first
  /\ \E sid \in DOMAIN disk.content :
       /\ disk.content[sid].MODELO_URNA_1T \in Labels
       /\ disk.content[sid].MODELO_URNA_2T \in Labels \cup {"None"}
       /\ disk.content[sid].MODELO_URNA_1T # disk.content[sid].MODELO_URNA_2T


====
